---- MODULE Spec2Model ----
(***************************************************************************)
(* Model of the Bitly country-metrics pipeline (src/src/bitly_lib.py):     *)
(* async_get_metrics resolves a token to a group guid, the group to its    *)
(* bitlinks, fans out one metrics request per bitlink with                 *)
(* tornado.gen.multi, and merges the responses into                        *)
(* bitlink -> country -> average clicks per day.                           *)
(*                                                                         *)
(* Python strings are sequences of one-character strings, so that find,    *)
(* slicing, quote and lower are computed character by character.  JSON     *)
(* values are tagged records: Str, Num, Arr, Obj.                          *)
(***************************************************************************)
EXTENDS Integers, Sequences, FiniteSets, TLC

\* ------------------------------------------------------------------ bounds
MaxLinks == 2
MaxCountries == 2

\* --------------------------------------------------------- program constants
NUM_DAYS == 30
HTML_PREFIX_END == <<":", "/", "/">>

\* ------------------------------------------------------------- JSON values
Str(s) == [t |-> "str", s |-> s]
Num(n) == [t |-> "num", n |-> n]
Arr(a) == [t |-> "arr", a |-> a]
Obj(o) == [t |-> "obj", o |-> o]
EmptyObj == Obj(<<>>)
Has(obj, field) == field \in DOMAIN obj.o
Get(obj, field) == obj.o[field]

\* The body of an HTTP response: text that json.loads either parses to a
\* value or rejects.
JsonText(v) == [text |-> "json", value |-> v]
Garbage == [text |-> "garbage"]

\* A completed fetch: an HTTP response with a status code, or a failure
\* below HTTP (connection refused, DNS).
Http(code, body) == [kind |-> "http", code |-> code, body |-> body]
ConnFail == [kind |-> "conn"]
Pending == [kind |-> "pending"]

\* ------------------------------------------------------ Python primitives
RECURSIVE FindFrom(_, _, _)
FindFrom(s, sub, i) ==
    IF i + Len(sub) > Len(s) THEN -1
    ELSE IF SubSeq(s, i + 1, i + Len(sub)) = sub THEN i
    ELSE FindFrom(s, sub, i + 1)

\* str.find: index (from 0) of the first occurrence of sub, -1 if none
find(s, sub) == FindFrom(s, sub, 0)

\* s[k:] for k >= 0 (an index beyond the end gives the empty string)
SliceFrom(s, k) == SubSeq(s, k + 1, Len(s))

\* str.lower on the letters the model uses
LowerChar(c) ==
    CASE c = "U" -> "u"
      [] c = "S" -> "s"
      [] c = "F" -> "f"
      [] c = "R" -> "r"
      [] OTHER -> c
\* (variant: no case folding)
lower_identity(s) == s
lower(s) == [i \in 1..Len(s) |-> LowerChar(s[i])]

\* urllib.parse.quote(s) with its default safe = '/': letters, digits,
\* '_.-~' and '/' are kept, every other character becomes %XX.
AlwaysSafe == {"h", "s", "b", "x", "y", "t", "l", ".", "-", "_", "~"}
QuoteSafe == AlwaysSafe \cup {"/"}
HexOf(c) ==
    CASE c = ":" -> <<"3", "A">>
      [] c = "/" -> <<"2", "F">>
      [] c = " " -> <<"2", "0">>
      [] c = "%" -> <<"2", "5">>
\* (variant: quote(s, safe=''), which escapes '/' as well)
QuoteCharNoSafe(c) == IF c \in AlwaysSafe THEN <<c>> ELSE <<"%">> \o HexOf(c)
QuoteChar(c) == IF c \in QuoteSafe THEN <<c>> ELSE <<"%">> \o HexOf(c)
RECURSIVE quote(_)
quote(s) == IF s = <<>> THEN <<>> ELSE QuoteChar(Head(s)) \o quote(Tail(s))

RECURSIVE GCD(_, _)
GCD(a, b) == IF b = 0 THEN a ELSE GCD(b, a % b)
\* (variant: the quotient truncated to an integer, a // b)
FloorDiv(a, b) == [num |-> a \div b, den |-> 1]

\* a / b of two ints, Python 3 true division: the exact quotient, kept as a
\* fraction in lowest terms
TrueDiv(a, b) == LET g == GCD(a, b) IN [num |-> a \div g, den |-> b \div g]

\* ------------------------------------------------------------ URL builders
get_user_url == [endpoint |-> "user"]
get_bitlinks_url(group_guid) == [endpoint |-> "bitlinks", arg |-> group_guid]
get_country_url(bitlink) == [endpoint |-> "countries", arg |-> bitlink]

\* parse_bitlink: strip '{scheme}://'
parse_bitlink(bitlink_url) ==
    LET prefix_start_pos == find(bitlink_url, HTML_PREFIX_END)
        prefix_end_pos == prefix_start_pos + Len(HTML_PREFIX_END)
    IN SliceFrom(bitlink_url, prefix_end_pos)

\* ------------------------------------------------------------- exceptions
Raise(exc, code) == [kind |-> "raise", exc |-> exc, code |-> code]
Return(v) == [kind |-> "return", value |-> v]
NoOutcome == [kind |-> "none"]
Raised(r) == r.kind = "raise"

\* ------------------------------------------------------------ HTTP layer
\* (variant: the status is not looked at, as with raise_error=False)
async_http_get_any_status(resp) ==
    IF resp.kind = "conn" THEN Raise("OSError", 0) ELSE Return(resp)

\* async_http_get: client.fetch raises HTTPError(code) on a status outside
\* 2xx and the transport's own error when no HTTP response arrives;
\* otherwise the response is returned.
async_http_get(resp) ==
    IF resp.kind = "conn" THEN Raise("OSError", 0)
    ELSE IF resp.code < 200 \/ resp.code >= 300 THEN Raise("HTTPError", resp.code)
    ELSE Return(resp)

\* json.loads inside try/except: the parsed value, or {} when the body does
\* not parse (the error is logged and dropped)
json_loads_or_empty(body) == IF body.text = "json" THEN body.value ELSE EmptyObj

async_http_get_json(resp) ==
    LET response == async_http_get(resp)
    IN IF Raised(response) THEN response
       ELSE Return(json_loads_or_empty(response.value.body))

\* ------------------------------------------------------------- validators
\* for x in v, for a v that passed its validator: the elements of a list; an
\* empty string or dict has nothing to iterate
iterate(v) == IF v.t = "arr" THEN v.a ELSE <<>>

RECURSIVE validate_links_from(_, _)
validate_links_from(links, i) ==
    IF i > Len(links) THEN "ok"
    ELSE IF ~Has(links[i], "link") THEN "ValueError"
    ELSE IF Get(links[i], "link").t # "str" THEN "TypeError"
    ELSE validate_links_from(links, i + 1)

\* validate_bitlinks_response: "ok" or the exception it raises. The loop
\* iterates whatever response['links'] is: the elements of a list, the
\* characters of a string (no one-character string contains 'link'), the
\* keys of a dict (of at most one key here; the key 'link' is then indexed
\* as a string); a number or null cannot be iterated.
validate_bitlinks_response(response) ==
    IF ~Has(response, "links") THEN "ValueError"
    ELSE LET links == Get(response, "links")
         IN IF links.t = "arr" THEN validate_links_from(links.a, 1)
            ELSE IF links.t = "str"
              THEN IF links.s = <<>> THEN "ok" ELSE "ValueError"
            ELSE IF links.t = "obj"
              THEN IF DOMAIN links.o = {} THEN "ok"
                   ELSE IF "link" \in DOMAIN links.o THEN "TypeError" ELSE "ValueError"
            ELSE "TypeError"


RECURSIVE validate_metrics_from(_, _)
validate_metrics_from(metrics, i) ==
    IF i > Len(metrics) THEN "ok"
    ELSE IF ~Has(metrics[i], "value") THEN "ValueError"
    ELSE IF ~Has(metrics[i], "clicks") THEN "ValueError"
    ELSE validate_metrics_from(metrics, i + 1)

\* validate_country_response: "ok" or the exception it raises. As above the
\* loop iterates whatever response['metrics'] is; no character and no key
\* here contains both 'value' and 'clicks'. Neither field's type is looked at.
validate_country_response(response) ==
    IF ~Has(response, "metrics") THEN "ValueError"
    ELSE LET metrics == Get(response, "metrics")
         IN IF metrics.t = "arr" THEN validate_metrics_from(metrics.a, 1)
            ELSE IF metrics.t = "str"
              THEN IF metrics.s = <<>> THEN "ok" ELSE "ValueError"
            ELSE IF metrics.t = "obj"
              THEN IF DOMAIN metrics.o = {} THEN "ok" ELSE "ValueError"
            ELSE "TypeError"

\* ---------------------------------------------------------- stage 1: group
\* (variant: no isinstance check, a guid of another type is formatted into
\* the bitlinks URL)
async_get_group_guid_untyped(resp) ==
    LET response == async_http_get_json(resp)
    IN IF Raised(response) THEN response
       ELSE IF ~Has(response.value, "default_group_guid") THEN Raise("ValueError", 0)
       ELSE IF Get(response.value, "default_group_guid").t # "str" THEN Return(<<"7">>)
       ELSE Return(Get(response.value, "default_group_guid").s)

\* (variant: a response without the field yields an empty group id)
async_get_group_guid_defaulting(resp) ==
    LET response == async_http_get_json(resp)
    IN IF Raised(response) THEN response
       ELSE IF ~Has(response.value, "default_group_guid") THEN Return(<<>>)
       ELSE IF Get(response.value, "default_group_guid").t # "str" THEN Raise("TypeError", 0)
       ELSE Return(Get(response.value, "default_group_guid").s)

async_get_group_guid(resp) ==
    LET response == async_http_get_json(resp)
    IN IF Raised(response) THEN response
       ELSE IF ~Has(response.value, "default_group_guid") THEN Raise("ValueError", 0)
       ELSE IF Get(response.value, "default_group_guid").t # "str" THEN Raise("TypeError", 0)
       ELSE Return(Get(response.value, "default_group_guid").s)

\* ------------------------------------------------------- stage 2: bitlinks
\* (variant: a malformed link record is skipped instead of raising)
async_get_bitlinks_skipping(resp) ==
    LET response == async_http_get_json(resp)
        WellFormed(rec) == Has(rec, "link") /\ Get(rec, "link").t = "str"
    IN IF Raised(response) THEN response
       ELSE IF ~Has(response.value, "links") THEN Raise("ValueError", 0)
       ELSE IF Get(response.value, "links").t # "arr" THEN Raise("TypeError", 0)
       ELSE LET links == SelectSeq(Get(response.value, "links").a, WellFormed)
            IN Return([i \in 1..Len(links) |->
                         quote(parse_bitlink(Get(links[i], "link").s))])

async_get_bitlinks(resp) ==
    LET response == async_http_get_json(resp)
    IN IF Raised(response) THEN response
       ELSE LET v == validate_bitlinks_response(response.value)
            IN IF v # "ok" THEN Raise(v, 0)
               ELSE LET links == iterate(Get(response.value, "links"))
                    IN Return([i \in 1..Len(links) |->
                                 quote(parse_bitlink(Get(links[i], "link").s))])

\* -------------------------------------------------------- stage 3: metrics
NoneVal == [t |-> "none"]

\* d[k] = v on a Python dict
Put(d, k, v) == [x \in (DOMAIN d) \cup {k} |-> IF x = k THEN v ELSE d[x]]

\* The loop over one bitlink's metrics (lines 120-124), from entry i on, with
\* the bitlink's country map so far in acc: the filter is compared first, the
\* division is evaluated only for an entry that passes it.
RECURSIVE country_loop(_, _, _, _)
country_loop(metrics, i, lcase_country, acc) ==
    IF i > Len(metrics) THEN Return(acc)
    ELSE LET country_name == Get(metrics[i], "value")
             country_clicks == Get(metrics[i], "clicks")
         IN IF lcase_country.t # "none" /\ country_name.t # "str"
              THEN Raise("AttributeError", 0)
            ELSE IF lcase_country.t = "none" \/ lcase_country.s = lower(country_name.s)
              THEN IF country_clicks.t # "num" THEN Raise("TypeError", 0)
                   ELSE country_loop(metrics, i + 1, lcase_country,
                                     Put(acc, country_name, TrueDiv(country_clicks.n, NUM_DAYS)))
            ELSE country_loop(metrics, i + 1, lcase_country, acc)

\* (variant: a payload that fails validation gives the bitlink an empty map)
bitlink_countries_tolerant(country_future, lcase_country) ==
    LET json_country_data == json_loads_or_empty(country_future.body)
        v == validate_country_response(json_country_data)
    IN IF v # "ok" THEN Return(<<>>)
       ELSE country_loop(iterate(Get(json_country_data, "metrics")), 1, lcase_country, <<>>)

\* One iteration of the loop over the bitlinks (lines 108-124): parse,
\* validate, then build the bitlink's country map from an empty one.
bitlink_countries(country_future, lcase_country) ==
    LET json_country_data == json_loads_or_empty(country_future.body)
        v == validate_country_response(json_country_data)
    IN IF v # "ok" THEN Raise(v, 0)
       ELSE country_loop(iterate(Get(json_country_data, "metrics")), 1, lcase_country, <<>>)

\* dict(zip(keys, values)): the keys in order of first occurrence, each with
\* the value zipped to its last occurrence
FirstOccurrences(keys) ==
    LET RECURSIVE from(_)
        from(i) == IF i > Len(keys) THEN <<>>
                   ELSE IF \E j \in 1..(i - 1) : keys[j] = keys[i] THEN from(i + 1)
                   ELSE <<keys[i]>> \o from(i + 1)
    IN from(1)
LastIndex(keys, k) ==
    CHOOSE i \in 1..Len(keys) : keys[i] = k /\ \A j \in (i + 1)..Len(keys) : keys[j] # k
\* (variant: a key met again keeps the value it already has)
dict_zip_keep_first(keys, values) ==
    [k \in {keys[i] : i \in 1..Len(keys)} |->
        values[CHOOSE i \in 1..Len(keys) : keys[i] = k /\ \A j \in 1..(i - 1) : keys[j] # k]]

dict_zip(keys, values) ==
    [k \in {keys[i] : i \in 1..Len(keys)} |-> values[LastIndex(keys, k)]]

\* (variant: the bitlink's key is created only when a country is stored)
RECURSIVE merge_from_lazy(_, _, _, _, _)
merge_from_lazy(order, n, bitlink_to_country_future, lcase_country, bitlinks_data) ==
    IF n > Len(order) THEN Return(bitlinks_data)
    ELSE LET encoded_bitlink == order[n]
             r == bitlink_countries(bitlink_to_country_future[encoded_bitlink], lcase_country)
         IN IF Raised(r) THEN r
            ELSE merge_from_lazy(order, n + 1, bitlink_to_country_future, lcase_country,
                                 IF r.value = <<>> THEN bitlinks_data
                                 ELSE Put(bitlinks_data, encoded_bitlink, r.value))

\* The loop over bitlink_to_country_future.items() (lines 107-126), from the
\* n-th key on
RECURSIVE merge_from(_, _, _, _, _)
merge_from(order, n, bitlink_to_country_future, lcase_country, bitlinks_data) ==
    IF n > Len(order) THEN Return(bitlinks_data)
    ELSE LET encoded_bitlink == order[n]
             r == bitlink_countries(bitlink_to_country_future[encoded_bitlink], lcase_country)
         IN IF Raised(r) THEN r
            ELSE merge_from(order, n + 1, bitlink_to_country_future, lcase_country,
                            Put(bitlinks_data, encoded_bitlink, r.value))

\* What awaiting tornado.gen.multi gives once every child has finished: the
\* exception of the first child, in list order, that raised; else the list of
\* the children's results in the order the children were passed in.
RECURSIVE first_raised(_, _)
first_raised(results, i) ==
    IF i > Len(results) THEN NoOutcome
    ELSE IF Raised(async_http_get(results[i])) THEN async_http_get(results[i])
    ELSE first_raised(results, i + 1)

\* async_get_country_counts after the join (lines 98-126)
country_counts_after_join(encoded_bitlinks_list, results, country) ==
    LET failed == first_raised(results, 1)
        lcase_country == IF country.t = "none" THEN NoneVal ELSE Str(lower(country.s))
    IN IF Raised(failed) THEN failed
       ELSE merge_from(FirstOccurrences(encoded_bitlinks_list), 1,
                       dict_zip(encoded_bitlinks_list, results), lcase_country, <<>>)

\* ------------------------------------------------------------------ inputs
SeqsUpTo(S, n) == UNION {[1..k -> S] : k \in 0..n}

Tokens == {"tokA"}
CountryFilters == {NoneVal, Str(<<"u", "s">>)}

\* "h://b/x", "s://b/x" (the same bitlink under another scheme),
\* "h://b://y" (a second delimiter after the first), "b/x" (no delimiter)
LinkUrls ==
    { <<"h", ":", "/", "/", "b", "/", "x">>,
      <<"s", ":", "/", "/", "b", "/", "x">>,
      <<"h", ":", "/", "/", "b", ":", "/", "/", "y">>,
      <<"b", "/", "x">> }

ErrorResponses == {Http(403, Garbage), ConnFail}

UserResponses ==
    ErrorResponses \cup
    { Http(200, Garbage),
      Http(200, JsonText(EmptyObj)),
      Http(200, JsonText(Obj([default_group_guid |-> Num(7)]))),
      Http(200, JsonText(Obj([default_group_guid |-> Str(<<"g", "1">>)]))) }

LinkRecords ==
    {EmptyObj, Obj([link |-> Num(7)])} \cup {Obj([link |-> Str(u)]) : u \in LinkUrls}

BitlinksResponses ==
    ErrorResponses \cup
    { Http(200, Garbage),
      Http(200, JsonText(EmptyObj)),
      Http(200, JsonText(Obj([links |-> Num(7)]))),
      Http(200, JsonText(Obj([links |-> Str(<<>>)]))),
      Http(200, JsonText(Obj([links |-> Str(<<"b">>)]))),
      Http(200, JsonText(Obj([links |-> EmptyObj]))),
      Http(200, JsonText(Obj([links |-> Obj([link |-> Str(<<"b">>)])]))) } \cup
    { Http(200, JsonText(Obj([links |-> Arr(l)]))) : l \in SeqsUpTo(LinkRecords, MaxLinks) }

US == Str(<<"U", "S">>)
FR == Str(<<"F", "R">>)
Metric(name, clicks) == Obj([value |-> name, clicks |-> clicks])

MetricsResponses ==
    { Http(403, Garbage),
      ConnFail,
      Http(200, Garbage),
      Http(200, JsonText(Obj([metrics |-> Arr(<<Obj([value |-> FR])>>)]))),
      Http(200, JsonText(Obj([metrics |-> Arr(<<>>)]))),
      Http(200, JsonText(Obj([metrics |-> Arr(<<Metric(FR, Num(30))>>)]))),
      Http(200, JsonText(Obj([metrics |-> Arr(<<Metric(US, Num(90)), Metric(FR, Num(60))>>)]))) }

\* ------------------------------------------------------------------- state
VARIABLES
    pc,                     \* where async_get_metrics is suspended
    token, country,         \* its arguments
    requests,               \* every outbound request issued, in order
    user_resp,              \* the upstream's answer to the user request
    group_guid,
    bitlinks_resp,          \* the upstream's answer to the bitlinks request
    encoded_bitlinks_list,
    issued,                 \* how many metrics fetches have been started
    responses,              \* responses[i]: the answer to the i-th metrics request
    arrival,                \* the indices of the metrics fetches in completion order
    outcome,                \* what async_get_metrics returned or raised
    handler,                \* where ClickHandler.get is: waiting, awaiting, finished
    access_token,           \* the access_token header of the request it serves
    replies,                \* the responses sent to the client, in order
    current,                \* which of two requests the variables above belong to
    peer                    \* the other request's handler and call, suspended

lib_vars == <<pc, token, country, requests, user_resp, group_guid, bitlinks_resp,
              encoded_bitlinks_list, issued, responses, arrival, outcome>>
vars == <<lib_vars, handler, access_token, replies, current, peer>>

Request(url, tok, params) == [url |-> url, token |-> tok, params |-> params]
NoParams == <<>>
MetricsParams == [unit |-> "day", units |-> NUM_DAYS]

\* ------------------------------------------------- server.py: the replies
GENERIC_INTERNAL_ERR == 1
BITLY_API_DATA_ERR == 2
BITLY_API_HTTP_ERR == 3
BAD_TOKEN_ERR == 4
HTTP_OK == 200
HTTP_UNAUTHORIZED == 401
HTTP_INTERNAL_SERVER_ERROR == 500

\* A request header: absent, or present with a string value
NoHeader == [present |-> FALSE]
Header(v) == [present |-> TRUE, value |-> v]
HeaderTokens == {NoHeader, Header("")} \cup {Header(tok) : tok \in Tokens}

\* str(exception): the message, which for an HTTPError holds the status code
str_exc(e) == [text |-> e.exc, code |-> e.code]

\* send_httperr: the status is set and the error envelope finishes the request
send_httperr(err_type, err_msg, status) ==
    [status |-> status,
     body |-> [kind |-> "error", errortype |-> err_type, errormessage |-> err_msg]]

\* send_success: the envelope is written with the default status; the
\* framework finishes the request when the handler returns
send_success(bitlinks_data) ==
    [status |-> HTTP_OK, body |-> [kind |-> "success", metrics |-> bitlinks_data]]

\* A handler that returns without having written anything: the framework
\* finishes the request with the default status and no body
auto_finish == [status |-> HTTP_OK, body |-> [kind |-> "empty"]]

\* (variant: only a missing header is refused)
bad_token_none_only(hdr) == ~hdr.present

\* not token or not isinstance(token, str)
bad_token(hdr) == ~hdr.present \/ hdr.value = ""

\* ClickHandler.get from the await on: the success envelope, or the except
\* clause that matches what async_get_metrics raised (the last one only logs)
handler_reply(result) ==
    IF result.kind = "return" THEN send_success(result.value)
    ELSE IF result.exc = "ValueError"
      THEN send_httperr(BITLY_API_DATA_ERR, str_exc(result), HTTP_INTERNAL_SERVER_ERROR)
    ELSE IF result.exc = "TypeError"
      THEN send_httperr(BITLY_API_DATA_ERR, str_exc(result), HTTP_INTERNAL_SERVER_ERROR)
    ELSE IF result.exc = "HTTPError"
      THEN send_httperr(BITLY_API_HTTP_ERR, str_exc(result), HTTP_INTERNAL_SERVER_ERROR)
    ELSE auto_finish

\* A request that has not arrived yet: the locals of its handler and of its
\* call to async_get_metrics, as Init has them
NotArrived ==
    [pc |-> "idle", token |-> "", country |-> NoneVal, requests |-> <<>>,
     user_resp |-> Pending, group_guid |-> NoneVal, bitlinks_resp |-> Pending,
     encoded_bitlinks_list |-> <<>>, issued |-> 0, responses |-> <<>>, arrival |-> <<>>,
     outcome |-> NoOutcome, handler |-> "waiting", access_token |-> NoHeader,
     replies |-> <<>>]

Init ==
    /\ pc = "idle"
    /\ token = ""
    /\ country = NoneVal
    /\ requests = <<>>
    /\ user_resp = Pending
    /\ group_guid = NoneVal
    /\ bitlinks_resp = Pending
    /\ encoded_bitlinks_list = <<>>
    /\ issued = 0
    /\ responses = <<>>
    /\ arrival = <<>>
    /\ outcome = NoOutcome
    /\ handler = "waiting"
    /\ access_token = NoHeader
    /\ replies = <<>>
    /\ current = 1
    /\ peer = NotArrived

\* async_get_metrics(token, country) is called and runs to its first
\* suspension: the fetch of the user endpoint.
Call(tok, c) ==
    /\ pc = "idle"
    /\ token' = tok
    /\ country' = c
    /\ requests' = Append(requests, Request(get_user_url, tok, NoParams))
    /\ pc' = "user"
    /\ UNCHANGED <<user_resp, group_guid, bitlinks_resp, encoded_bitlinks_list,
                   issued, responses, arrival, outcome>>

\* The user fetch completes: async_get_group_guid finishes, and on success
\* async_get_bitlinks runs to its fetch.
UserFetched(resp) ==
    /\ pc = "user"
    /\ user_resp' = resp
    /\ LET r == async_get_group_guid(resp)
       IN IF Raised(r)
            THEN /\ outcome' = r
                 /\ pc' = "done"
                 /\ UNCHANGED <<group_guid, requests>>
            ELSE /\ group_guid' = Str(r.value)
                 /\ requests' = Append(requests,
                                       Request(get_bitlinks_url(r.value), token, NoParams))
                 /\ pc' = "bitlinks"
                 /\ UNCHANGED outcome
    /\ UNCHANGED <<token, country, bitlinks_resp, encoded_bitlinks_list,
                   issued, responses, arrival>>

\* The bitlinks fetch completes: async_get_bitlinks finishes, and on success
\* async_get_country_counts hands one coroutine per bitlink to
\* tornado.gen.multi and suspends on it.
BitlinksFetched(resp) ==
    /\ pc = "bitlinks"
    /\ bitlinks_resp' = resp
    /\ LET r == async_get_bitlinks(resp)
       IN IF Raised(r)
            THEN /\ outcome' = r
                 /\ pc' = "done"
                 /\ UNCHANGED <<encoded_bitlinks_list, responses>>
            ELSE /\ encoded_bitlinks_list' = r.value
                 /\ responses' = [i \in 1..Len(r.value) |-> Pending]
                 /\ pc' = "metrics"
                 /\ UNCHANGED outcome
    /\ UNCHANGED <<token, country, requests, user_resp, group_guid, issued, arrival>>

\* The next child of the multi runs to its client.fetch: the children are
\* started in list order, each as soon as the event loop reaches it.
IssueMetricsFetch ==
    /\ pc = "metrics"
    /\ issued < Len(encoded_bitlinks_list)
    /\ issued' = issued + 1
    /\ requests' = Append(requests,
                          Request(get_country_url(encoded_bitlinks_list[issued + 1]),
                                  token, MetricsParams))
    /\ UNCHANGED <<pc, token, country, user_resp, group_guid, bitlinks_resp,
                   encoded_bitlinks_list, responses, arrival, outcome>>

\* (variant: a response is delivered as soon as its own request is out)
may_complete_early(i) ==
    /\ i <= issued
    /\ responses[i] = Pending

\* Whether the i-th metrics fetch can complete now: every child was started
\* before the event loop polls for I/O, so no response is delivered earlier.
may_complete(i) ==
    /\ issued = Len(encoded_bitlinks_list)
    /\ responses[i] = Pending

\* The i-th metrics fetch completes, in any order relative to the others.
\* (variant: a fetch that failed is issued once more instead of finishing)
MetricsFetched_retrying(i, resp) ==
    /\ pc = "metrics"
    /\ i \in 1..Len(encoded_bitlinks_list)
    /\ may_complete(i)
    /\ IF Raised(async_http_get(resp)) /\ Len(requests) < 3 + Len(encoded_bitlinks_list)
         THEN /\ requests' = Append(requests,
                                    Request(get_country_url(encoded_bitlinks_list[i]),
                                            token, MetricsParams))
              /\ UNCHANGED <<responses, arrival>>
         ELSE /\ responses' = [responses EXCEPT ![i] = resp]
              /\ arrival' = Append(arrival, i)
              /\ UNCHANGED requests
    /\ UNCHANGED <<pc, token, country, user_resp, group_guid, bitlinks_resp,
                   encoded_bitlinks_list, issued, outcome>>

MetricsFetched(i, resp) ==
    /\ pc = "metrics"
    /\ i \in 1..Len(encoded_bitlinks_list)
    /\ may_complete(i)
    /\ responses' = [responses EXCEPT ![i] = resp]
    /\ arrival' = Append(arrival, i)
    /\ UNCHANGED <<pc, token, country, requests, user_resp, group_guid, bitlinks_resp,
                   encoded_bitlinks_list, issued, outcome>>

\* Whether the multi's future is resolved: all of its children have finished.
multi_done ==
    /\ issued = Len(encoded_bitlinks_list)
    /\ \A i \in 1..Len(responses) : responses[i] # Pending

\* (variant: the results in the order the children finished)
multi_results_by_arrival == [n \in 1..Len(arrival) |-> responses[arrival[n]]]

\* The list the multi resolves to: one result per child, in the order the
\* children were passed in.
multi_results == responses

\* The multi resolves: async_get_country_counts resumes, merges and returns.
Joined ==
    /\ pc = "metrics"
    /\ multi_done
    /\ outcome' = country_counts_after_join(encoded_bitlinks_list, multi_results, country)
    /\ pc' = "done"
    /\ UNCHANGED <<token, country, requests, user_resp, group_guid, bitlinks_resp,
                   encoded_bitlinks_list, issued, responses, arrival>>

\* ClickHandler.get up to its await: a request without a usable token is
\* answered 401 at once; otherwise async_get_metrics is called with the
\* header's token and the country argument.
ClickHandler_get(hdr, c) ==
    /\ handler = "waiting"
    /\ access_token' = hdr
    /\ IF bad_token(hdr)
         THEN /\ replies' = Append(replies,
                     send_httperr(BAD_TOKEN_ERR, [text |-> "Invalid access token provided", code |-> 0],
                                  HTTP_UNAUTHORIZED))
              /\ handler' = "finished"
              /\ UNCHANGED lib_vars
         ELSE /\ Call(hdr.value, c)
              /\ handler' = "awaiting"
              /\ UNCHANGED replies
    /\ UNCHANGED <<current, peer>>

\* A step of async_get_metrics inside ClickHandler.get: when the step ends
\* the call, the handler resumes in the same turn and replies.
Resume(step) ==
    /\ handler = "awaiting"
    /\ step
    /\ IF pc' = "done"
         THEN /\ replies' = Append(replies, handler_reply(outcome'))
              /\ handler' = "finished"
         ELSE UNCHANGED <<replies, handler>>
    /\ UNCHANGED <<access_token, current, peer>>

Next ==
    \/ \E hdr \in HeaderTokens, c \in CountryFilters : ClickHandler_get(hdr, c)
    \/ \E resp \in UserResponses : Resume(UserFetched(resp))
    \/ \E resp \in BitlinksResponses : Resume(BitlinksFetched(resp))
    \/ Resume(IssueMetricsFetch)
    \/ \E i \in 1..MaxLinks, resp \in MetricsResponses : Resume(MetricsFetched(i, resp))
    \/ Resume(Joined)

Spec == Init /\ [][Next]_vars

\* ------------------------------------------- the metrics stage on its own
\* One bitlink, "h://b/x", whose metrics request is in flight; the payload
\* and the country filter range over larger sets than in Spec.
AllCountryFilters ==
    {NoneVal, Str(<<"U", "S">>), Str(<<"u", "s">>), Str(<<"F", "R">>), Str(<<>>)}
CountryNames == {US, Str(<<"u", "s">>), FR, Num(7)}
ClickValues == {Num(90), Num(1), Str(<<"x">>)}
CountryRecords ==
    {Obj([value |-> US]), Obj([clicks |-> Num(90)])} \cup
    {Metric(name, clicks) : name \in CountryNames, clicks \in ClickValues}
AllMetricsPayloads ==
    { Http(200, JsonText(Obj([metrics |-> Arr(l)]))) :
        l \in SeqsUpTo(CountryRecords, MaxCountries) }

InitCountry ==
    /\ pc = "metrics"
    /\ token \in Tokens
    /\ country \in AllCountryFilters
    /\ user_resp = Http(200, JsonText(Obj([default_group_guid |-> Str(<<"g", "1">>)])))
    /\ group_guid = Str(<<"g", "1">>)
    /\ bitlinks_resp = Http(200, JsonText(Obj([links |->
                           Arr(<<Obj([link |-> Str(<<"h", ":", "/", "/", "b", "/", "x">>)])>>)])))
    /\ encoded_bitlinks_list = <<<<"b", "/", "x">>>>
    /\ requests = << Request(get_user_url, token, NoParams),
                     Request(get_bitlinks_url(<<"g", "1">>), token, NoParams),
                     Request(get_country_url(<<"b", "/", "x">>), token, MetricsParams) >>
    /\ issued = 1
    /\ responses = <<Pending>>
    /\ arrival = <<>>
    /\ outcome = NoOutcome
    /\ handler = "awaiting"
    /\ access_token = Header(token)
    /\ replies = <<>>
    /\ current = 1
    /\ peer = NotArrived

\* The answers to the metrics request: every payload, a 403, no answer
CountryStageResponses ==
    AllMetricsPayloads \cup
    { Http(403, Garbage), ConnFail, Http(200, Garbage), Http(200, JsonText(EmptyObj)),
      Http(200, JsonText(Obj([metrics |-> Num(7)]))),
      Http(200, JsonText(Obj([metrics |-> Str(<<>>)]))),
      Http(200, JsonText(Obj([metrics |-> EmptyObj]))) }

NextCountry ==
    \/ \E resp \in CountryStageResponses : Resume(MetricsFetched(1, resp))
    \/ Resume(Joined)

SpecCountry == InitCountry /\ [][NextCountry]_vars

\* ================================================================= claims
\* ---------------------------------------- the group stage on its own inputs
MaxGuidLen == 2
GuidValues ==
    {Str(g) : g \in SeqsUpTo({"g", "1", "/"}, MaxGuidLen)} \cup
    {Num(7), Num(0), Arr(<<>>), EmptyObj, NoneVal}
AllUserResponses ==
    ErrorResponses \cup
    UNION { {Http(code, Garbage), Http(code, JsonText(EmptyObj)),
             Http(code, JsonText(Obj([login |-> Str(<<"g">>)])))} \cup
            {Http(code, JsonText(Obj([default_group_guid |-> g]))) : g \in GuidValues}
          : code \in {200, 201} }

NextGroup ==
    \/ \E hdr \in HeaderTokens, c \in AllCountryFilters : ClickHandler_get(hdr, c)
    \/ \E resp \in AllUserResponses : Resume(UserFetched(resp))
SpecGroup == Init /\ [][NextGroup]_vars

\* ------------------- the sequential revision of async_get_country_counts
num_days == 30
OldMetricsParams == [unit |-> "month"]

\* async_http_get of that revision: fetch, then the parsed body or {}
old_async_http_get(resp) == async_http_get_json(resp)

\* The loop over one response's metrics, from entry i on: each iteration
\* assigns the bitlink a fresh dict and then stores the one entry in it.
RECURSIVE old_country_loop(_, _, _, _)
old_country_loop(bitlinks_data, encoded_bitlink, metrics, i) ==
    IF i > Len(metrics) THEN Return(bitlinks_data)
    ELSE LET country_str == Get(metrics[i], "value")
             country_clicks == Get(metrics[i], "clicks")
         IN IF country_clicks.t # "num" THEN Raise("TypeError", 0)
            ELSE old_country_loop(
                     Put(bitlinks_data, encoded_bitlink,
                         Put(<<>>, country_str, TrueDiv(country_clicks.n, num_days))),
                     encoded_bitlink, metrics, i + 1)

\* The loop over the bitlinks from the i-th on, one fetch after the other:
\* the result, or the first exception.
RECURSIVE old_country_counts_from(_, _, _, _)
old_country_counts_from(list, resps, i, bitlinks_data) ==
    IF i > Len(list) THEN Return(bitlinks_data)
    ELSE LET response == old_async_http_get(resps[i])
         IN IF Raised(response) THEN response
            ELSE LET v == validate_country_response(response.value)
                 IN IF v # "ok" THEN Raise(v, 0)
                    ELSE LET d == old_country_loop(bitlinks_data, list[i],
                                                   iterate(Get(response.value, "metrics")), 1)
                         IN IF Raised(d) THEN d
                            ELSE old_country_counts_from(list, resps, i + 1, d.value)

OldLinkLists ==
    { <<>>, << <<"x">> >>, << <<"x">>, <<"y">> >>, << <<"x">>, <<"x">> >> }
OldCountryRecords ==
    {Metric(US, Num(90)), Metric(FR, Num(1)), Metric(FR, Str(<<"x">>)), Obj([value |-> US])}
OldMetricsResponses ==
    { Http(403, Garbage), Http(200, Garbage) } \cup
    { Http(200, JsonText(Obj([metrics |-> Arr(l)]))) :
        l \in SeqsUpTo(OldCountryRecords, MaxCountries) }

\* async_get_country_counts(token, encoded_bitlinks_list) is entered
InitOld ==
    /\ pc = "metrics"
    /\ token \in Tokens
    /\ country = NoneVal
    /\ user_resp = Pending
    /\ group_guid = NoneVal
    /\ bitlinks_resp = Pending
    /\ encoded_bitlinks_list \in OldLinkLists
    /\ requests = <<>>
    /\ issued = 0
    /\ responses = [i \in 1..Len(encoded_bitlinks_list) |-> Pending]
    /\ arrival = <<>>
    /\ outcome = NoOutcome
    /\ handler = "awaiting"
    /\ access_token = Header(token)
    /\ replies = <<>>
    /\ current = 1
    /\ peer = NotArrived

\* The head of the for loop: the next bitlink's request is sent and awaited,
\* or the list is exhausted and the result is returned.
OldLoop ==
    /\ pc = "metrics"
    /\ issued = Len(arrival)
    /\ IF issued < Len(encoded_bitlinks_list)
         THEN /\ issued' = issued + 1
              /\ requests' = Append(requests,
                                    Request(get_country_url(encoded_bitlinks_list[issued + 1]),
                                            token, OldMetricsParams))
              /\ UNCHANGED <<pc, outcome>>
         ELSE /\ outcome' = old_country_counts_from(encoded_bitlinks_list, responses, 1, <<>>)
              /\ pc' = "done"
              /\ UNCHANGED <<issued, requests>>
    /\ UNCHANGED <<token, country, user_resp, group_guid, bitlinks_resp,
                   encoded_bitlinks_list, responses, arrival, handler, access_token, replies,
                   current, peer>>

\* The awaited fetch is answered and the body of the loop runs on it: an
\* exception ends the call, otherwise the loop goes on.
OldFetched(resp) ==
    /\ pc = "metrics"
    /\ issued = Len(arrival) + 1
    /\ responses' = [responses EXCEPT ![issued] = resp]
    /\ arrival' = Append(arrival, issued)
    /\ LET r == old_country_counts_from(SubSeq(encoded_bitlinks_list, 1, issued),
                                        responses', 1, <<>>)
       IN IF Raised(r) THEN outcome' = r /\ pc' = "done"
                       ELSE UNCHANGED <<outcome, pc>>
    /\ UNCHANGED <<token, country, requests, user_resp, group_guid, bitlinks_resp,
                   encoded_bitlinks_list, issued, handler, access_token, replies,
                   current, peer>>

NextOld ==
    \/ OldLoop
    \/ \E resp \in OldMetricsResponses : OldFetched(resp)
SpecOld == InitOld /\ [][NextOld]_vars

\* ------------------------------------------- two requests served at a time
\* The locals of the request the event loop is running
call_state ==
    [pc |-> pc, token |-> token, country |-> country, requests |-> requests,
     user_resp |-> user_resp, group_guid |-> group_guid, bitlinks_resp |-> bitlinks_resp,
     encoded_bitlinks_list |-> encoded_bitlinks_list, issued |-> issued,
     responses |-> responses, arrival |-> arrival, outcome |-> outcome,
     handler |-> handler, access_token |-> access_token, replies |-> replies]

\* (variant: the country filter is kept in a place both requests use)
Switch_sharing_country ==
    /\ peer' = call_state
    /\ current' = 3 - current
    /\ pc' = peer.pc /\ token' = peer.token /\ country' = country
    /\ requests' = peer.requests /\ user_resp' = peer.user_resp
    /\ group_guid' = peer.group_guid /\ bitlinks_resp' = peer.bitlinks_resp
    /\ encoded_bitlinks_list' = peer.encoded_bitlinks_list /\ issued' = peer.issued
    /\ responses' = peer.responses /\ arrival' = peer.arrival /\ outcome' = peer.outcome
    /\ handler' = peer.handler /\ access_token' = peer.access_token
    /\ replies' = peer.replies

\* The running coroutine is suspended at an await (or has ended) and the
\* event loop turns to the other request: each keeps its own locals.
Switch ==
    /\ peer' = call_state
    /\ current' = 3 - current
    /\ pc' = peer.pc /\ token' = peer.token /\ country' = peer.country
    /\ requests' = peer.requests /\ user_resp' = peer.user_resp
    /\ group_guid' = peer.group_guid /\ bitlinks_resp' = peer.bitlinks_resp
    /\ encoded_bitlinks_list' = peer.encoded_bitlinks_list /\ issued' = peer.issued
    /\ responses' = peer.responses /\ arrival' = peer.arrival /\ outcome' = peer.outcome
    /\ handler' = peer.handler /\ access_token' = peer.access_token
    /\ replies' = peer.replies

\* What each of the two requests asks for
TwoArgs(id) ==
    IF id = 1 THEN [token |-> "tokA", country |-> NoneVal]
              ELSE [token |-> "tokB", country |-> Str(<<"u", "s">>)]
TwoUserResponses ==
    { Http(403, Garbage),
      Http(200, JsonText(Obj([default_group_guid |-> Str(<<"g", "1">>)]))) }
TwoBitlinksResponses ==
    { Http(200, JsonText(Obj([links |->
          Arr(<<Obj([link |-> Str(<<"h", ":", "/", "/", "b", "/", "x">>)])>>)]))),
      Http(200, JsonText(Obj([links |->
          Arr(<<Obj([link |-> Str(<<"h", ":", "/", "/", "b", "/", "x">>)]),
                Obj([link |-> Str(<<"h", ":", "/", "/", "b", "/", "y">>)])>>)]))) }
TwoMetricsResponses ==
    { ConnFail,
      Http(200, JsonText(Obj([metrics |-> Arr(<<Metric(FR, Num(30))>>)]))),
      Http(200, JsonText(Obj([metrics |-> Arr(<<Metric(US, Num(90)), Metric(FR, Num(60))>>)]))) }

NextTwo ==
    \/ ClickHandler_get(Header(TwoArgs(current).token), TwoArgs(current).country)
    \/ \E resp \in TwoUserResponses : Resume(UserFetched(resp))
    \/ \E resp \in TwoBitlinksResponses : Resume(BitlinksFetched(resp))
    \/ Resume(IssueMetricsFetch)
    \/ \E i \in 1..2, resp \in TwoMetricsResponses : Resume(MetricsFetched(i, resp))
    \/ Resume(Joined)
    \/ Switch
SpecTwo == Init /\ [][NextTwo]_vars

Done == pc = "done"
Returned == Done /\ outcome.kind = "return"
N == Len(encoded_bitlinks_list)
Distinct(seq) == \A i, j \in 1..Len(seq) : i # j => seq[i] # seq[j]
AllFetched == N >= 1 /\ Len(responses) = N /\ \A i \in 1..N : responses[i] # Pending

\* The upstream answered with a 2xx status
FetchOk(resp) == resp.kind = "http" /\ resp.code \in 200..299
\* The body is JSON holding a metrics array whose elements all have value and clicks
PayloadValid(resp) ==
    /\ resp.body.text = "json"
    /\ "metrics" \in DOMAIN resp.body.value.o
    /\ resp.body.value.o["metrics"].t = "arr"
    /\ \A e \in {resp.body.value.o["metrics"].a[j] :
                   j \in 1..Len(resp.body.value.o["metrics"].a)} :
          {"value", "clicks"} \subseteq DOMAIN e.o
PayloadOf(resp) == iterate(resp.body.value.o["metrics"])
PassesFilter(name) == country.t = "none" \/ lower(name.s) = lower(country.s)

\* C1: when async_get_metrics returns for a list of distinct encoded
\* bitlinks, the country map under each bitlink key comes from the response
\* to that bitlink's own request, whatever the completion order: every entry
\* of the map is an entry of that response's payload (its clicks over 30),
\* and every entry of that payload that passes the filter is in the map.
C1_OwnResponse ==
    (Returned /\ N >= 1 /\ Distinct(encoded_bitlinks_list)) =>
        \A i \in 1..N :
            LET m == outcome.value[encoded_bitlinks_list[i]]
                own == PayloadOf(responses[i])
            IN /\ \A name \in DOMAIN m :
                     \E j \in 1..Len(own) :
                        /\ own[j].o["value"] = name
                        /\ m[name] = TrueDiv(own[j].o["clicks"].n, NUM_DAYS)
               /\ \A j \in 1..Len(own) :
                     PassesFilter(own[j].o["value"]) => own[j].o["value"] \in DOMAIN m

\* C1 witness: two distinct bitlinks whose fetches completed in the reverse
\* of list order, returned with different, non-empty country maps.
C1_Witness ==
    /\ Returned /\ N = 2 /\ Distinct(encoded_bitlinks_list)
    /\ arrival = <<2, 1>>
    /\ outcome.value[encoded_bitlinks_list[1]] # outcome.value[encoded_bitlinks_list[2]]
    /\ DOMAIN outcome.value[encoded_bitlinks_list[1]] # {}
    /\ DOMAIN outcome.value[encoded_bitlinks_list[2]] # {}

\* The payload cannot be parsed, or has no metrics field, or has an element
\* without value or without clicks
PayloadBad(resp) ==
    \/ resp.body.text # "json"
    \/ "metrics" \notin DOMAIN resp.body.value.o
    \/ /\ resp.body.value.o["metrics"].t = "arr"
       /\ \E j \in 1..Len(resp.body.value.o["metrics"].a) :
             ~({"value", "clicks"} \subseteq DOMAIN resp.body.value.o["metrics"].a[j].o)
\* The payload is valid, with string country names and numeric clicks
PayloadWellFormed(resp) ==
    /\ PayloadValid(resp)
    /\ \A j \in 1..Len(PayloadOf(resp)) :
          /\ PayloadOf(resp)[j].o["value"].t = "str"
          /\ PayloadOf(resp)[j].o["clicks"].t = "num"
\* Every fetch answered 2xx, the bitlinks are distinct, exactly one of the N
\* payloads is bad and the others are well-formed
OneBadPayload ==
    /\ AllFetched /\ Distinct(encoded_bitlinks_list)
    /\ \A i \in 1..N : FetchOk(responses[i])
    /\ Cardinality({i \in 1..N : PayloadBad(responses[i])}) = 1
    /\ \A i \in 1..N : ~PayloadBad(responses[i]) => PayloadWellFormed(responses[i])

OneFailedFetch ==
    /\ AllFetched
    /\ Cardinality({i \in 1..N : ~FetchOk(responses[i])}) = 1
    /\ \A i \in 1..N : FetchOk(responses[i]) => PayloadValid(responses[i])

GroupFails(resp) ==
    \/ ~FetchOk(resp)
    \/ resp.body.text # "json"
    \/ "default_group_guid" \notin DOMAIN resp.body.value.o
    \/ resp.body.value.o["default_group_guid"].t # "str"
RequestsTo(endpoint) == {n \in 1..Len(requests) : requests[n].url.endpoint = endpoint}

\* C4: when the group stage fails, async_get_metrics has raised, returned no
\* result, and issued no bitlinks request and no metrics request.
C4_GroupFailureAborts ==
    (user_resp # Pending /\ GroupFails(user_resp)) =>
        /\ Done /\ outcome.kind = "raise"
        /\ RequestsTo("bitlinks") = {} /\ RequestsTo("countries") = {}
        /\ Len(requests) = 1

\* C4 witness: the user response carried a guid that is not a string.
C4_Witness ==
    /\ user_resp = Http(200, JsonText(Obj([default_group_guid |-> Num(7)])))
    /\ outcome = Raise("TypeError", 0)

\* The bitlinks response is a 2xx JSON body with a links array
LinksListed(resp) ==
    /\ FetchOk(resp) /\ resp.body.text = "json"
    /\ "links" \in DOMAIN resp.body.value.o
    /\ resp.body.value.o["links"].t = "arr"
LinksOf(resp) == resp.body.value.o["links"].a
MalformedRecord(rec) == "link" \notin DOMAIN rec.o \/ rec.o["link"].t # "str"

\* C5: when any element of the bitlinks response has no link or a link that
\* is not a string, async_get_metrics has raised, no link list was produced
\* and no metrics request was issued for any link.
C5_MalformedLinkAborts ==
    (/\ bitlinks_resp # Pending /\ LinksListed(bitlinks_resp)
     /\ \E n \in 1..Len(LinksOf(bitlinks_resp)) : MalformedRecord(LinksOf(bitlinks_resp)[n]))
    => /\ Done /\ outcome.kind = "raise" /\ outcome.exc \in {"ValueError", "TypeError"}
       /\ encoded_bitlinks_list = <<>>
       /\ RequestsTo("countries") = {}

\* C5 witness: a well-formed link record followed by a malformed one.
C5_Witness ==
    /\ bitlinks_resp # Pending /\ LinksListed(bitlinks_resp)
    /\ Len(LinksOf(bitlinks_resp)) = 2
    /\ ~MalformedRecord(LinksOf(bitlinks_resp)[1])
    /\ MalformedRecord(LinksOf(bitlinks_resp)[2])
    /\ Done /\ outcome.kind = "raise"

\* C6: no metrics response arrives before all N metrics requests have been
\* issued, and the metrics stage produces its result or its error only after
\* all N fetches have completed.
C6_FanOutThenFanIn ==
    /\ (\E i \in 1..Len(responses) : responses[i] # Pending) =>
          /\ issued = N
          /\ Cardinality(RequestsTo("countries")) = N
    /\ (Done /\ N >= 1) => AllFetched

\* C6 witness: both requests are out, the second has been answered and the
\* first has not.
C6_Witness ==
    /\ pc = "metrics" /\ N = 2 /\ issued = 2
    /\ responses[1] = Pending /\ responses[2] # Pending

\* C7: a bitlink is a key of the returned result iff a fetch for it succeeded
\* with a payload that validated; a bitlink whose payload is empty, or holds
\* no entry passing the filter, is present with the empty map.
C7_KeysAreValidatedBitlinks ==
    Returned =>
        /\ \A b \in (DOMAIN outcome.value) \cup {encoded_bitlinks_list[i] : i \in 1..N} :
              b \in DOMAIN outcome.value <=>
                 \E i \in 1..N : /\ encoded_bitlinks_list[i] = b
                                 /\ FetchOk(responses[i]) /\ PayloadValid(responses[i])
        /\ Distinct(encoded_bitlinks_list) =>
              \A i \in 1..N :
                 (\A j \in 1..Len(PayloadOf(responses[i])) :
                     ~PassesFilter(PayloadOf(responses[i])[j].o["value"]))
                 => /\ encoded_bitlinks_list[i] \in DOMAIN outcome.value
                    /\ outcome.value[encoded_bitlinks_list[i]] = <<>>

\* C7 witness: one bitlink with an empty metrics list and one whose only
\* entry the filter excludes, both present with the empty map.
C7_Witness ==
    /\ Returned /\ N = 2 /\ Distinct(encoded_bitlinks_list)
    /\ country # NoneVal
    /\ PayloadOf(responses[1]) = <<>>
    /\ PayloadOf(responses[2]) # <<>>
    /\ outcome.value[encoded_bitlinks_list[1]] = <<>>
    /\ outcome.value[encoded_bitlinks_list[2]] = <<>>

\* Two strings are equal ignoring letter case
CasePairs == {{"U", "u"}, {"S", "s"}, {"F", "f"}, {"R", "r"}}
EqIgnoreCase(a, b) ==
    /\ Len(a) = Len(b)
    /\ \A n \in 1..Len(a) : a[n] = b[n] \/ {a[n], b[n]} \in CasePairs
\* The filter keeps a name: no filter was supplied, or the name equals it
\* ignoring case
Keeps(f, name) == f.t = "none" \/ (name.t = "str" /\ EqIgnoreCase(name.s, f.s))

\* C8: the country map of a bitlink holds exactly the entries of its payload
\* whose name equals the filter ignoring case (every entry when there is no
\* filter), under the name as the payload spells it, each with the clicks of
\* the last entry of that name over 30; a filter differing only in case gives
\* the same result.
C8_CaseInsensitiveFilter ==
    (Returned /\ N = 1) =>
        LET m == outcome.value[encoded_bitlinks_list[1]]
            pl == PayloadOf(responses[1])
        IN /\ DOMAIN m = {pl[j].o["value"] : j \in {k \in 1..Len(pl) : Keeps(country, pl[k].o["value"])}}
           /\ \A name \in DOMAIN m :
                 LET last == CHOOSE j \in 1..Len(pl) :
                                /\ pl[j].o["value"] = name
                                /\ \A k \in (j + 1)..Len(pl) : pl[k].o["value"] # name
                 IN m[name] = TrueDiv(pl[last].o["clicks"].n, NUM_DAYS)
           /\ \A f \in AllCountryFilters :
                 (f.t = "str" /\ country.t = "str" /\ EqIgnoreCase(f.s, country.s)) =>
                    country_counts_after_join(encoded_bitlinks_list, responses, f) = outcome

\* C8 witness: filter "us" on a payload listing US and FR keeps US alone,
\* under the payload's spelling.
C8_Witness ==
    /\ Returned /\ N = 1
    /\ country = Str(<<"u", "s">>)
    /\ PayloadOf(responses[1]) = <<Metric(US, Num(90)), Metric(FR, Num(1))>>
    /\ DOMAIN outcome.value[encoded_bitlinks_list[1]] = {US}

\* The scheme delimiter occurs in u at position p (from 1)
DelimAt(u, p) == p + 2 <= Len(u) /\ SubSeq(u, p, p + 2) = <<":", "/", "/">>
HasDelim(u) == \E p \in 1..Len(u) : DelimAt(u, p)
\* The substring after the first "://"
AfterFirstDelim(u) ==
    LET p == CHOOSE q \in 1..Len(u) : DelimAt(u, q) /\ \A r \in 1..(q - 1) : ~DelimAt(u, r)
    IN SubSeq(u, p + 3, Len(u))
\* Percent-encoding for a single path segment: every character outside the
\* unreserved set, "/" included, becomes %XX
RECURSIVE EncodeSegment(_)
EncodeSegment(str) ==
    IF str = <<>> THEN <<>>
    ELSE (IF Head(str) \in {"h", "s", "b", "x", "y", "t", "l", ".", "-", "_", "~"}
            THEN <<Head(str)>>
          ELSE IF Head(str) = "/" THEN <<"%", "2", "F">>
          ELSE IF Head(str) = ":" THEN <<"%", "3", "A">>
          ELSE <<"%", "2", "0">>) \o EncodeSegment(Tail(str))
\* Percent-decoding
RECURSIVE Unquote(_)
Unquote(str) ==
    IF str = <<>> THEN <<>>
    ELSE IF Head(str) = "%" /\ Len(str) >= 3
      THEN <<CASE SubSeq(str, 2, 3) = <<"3", "A">> -> ":"
               [] SubSeq(str, 2, 3) = <<"2", "F">> -> "/"
               [] SubSeq(str, 2, 3) = <<"2", "0">> -> " "
               [] OTHER -> "%">> \o Unquote(SubSeq(str, 4, Len(str)))
    ELSE <<Head(str)>> \o Unquote(Tail(str))
Count(str, c) == Cardinality({n \in 1..Len(str) : str[n] = c})

\* The bitlinks response listed well-formed link records only
LinksAccepted ==
    /\ bitlinks_resp # Pending /\ LinksListed(bitlinks_resp)
    /\ \A n \in 1..Len(LinksOf(bitlinks_resp)) : ~MalformedRecord(LinksOf(bitlinks_resp)[n])
LinkUrl(i) == LinksOf(bitlinks_resp)[i].o["link"].s
\* The bitlink id in the URL of the i-th metrics request (the user and the
\* bitlinks request precede the metrics requests)
RequestedBitlink(i) == requests[2 + i].url.arg

\* C9 as stated: the key of a link holding "://" is the substring after the
\* first "://" encoded as one path segment, "/" becoming "%2F".
C9_AsClaimed ==
    LinksAccepted =>
        \A i \in 1..Len(LinksOf(bitlinks_resp)) :
            HasDelim(LinkUrl(i)) =>
                encoded_bitlinks_list[i] = EncodeSegment(AfterFirstDelim(LinkUrl(i)))

\* C9 amended: the key of a link holding "://", which is also the bitlink id
\* of its metrics request, is the substring after the first "://" with
\* urllib.parse.quote's default escaping: it decodes back to that substring,
\* holds only characters quote leaves or produces, and keeps every "/"
\* unescaped ("h://b/x" is keyed "b/x").
C9_KeyIsQuotedSuffix ==
    LinksAccepted =>
        /\ Len(encoded_bitlinks_list) = Len(LinksOf(bitlinks_resp))
        /\ \A i \in 1..Len(LinksOf(bitlinks_resp)) :
              HasDelim(LinkUrl(i)) =>
                 LET key == encoded_bitlinks_list[i]
                     suffix == AfterFirstDelim(LinkUrl(i))
                 IN /\ Unquote(key) = suffix
                    /\ \A n \in 1..Len(key) :
                          key[n] \in {"h", "s", "b", "x", "y", "/", "%", "3", "A"}
                    /\ Count(key, ":") = 0
                    /\ Count(key, "/") = Count(suffix, "/")
                    /\ i <= issued => RequestedBitlink(i) = key
                    /\ Returned => key \in DOMAIN outcome.value

\* C9 witness: "h://b/x" and "h://b://y" were listed, keyed "b/x" and
\* "b%3A//y", both requested and both keys of the returned result.
C9_Witness ==
    /\ LinksAccepted /\ N = 2 /\ Returned
    /\ LinkUrl(1) = <<"h", ":", "/", "/", "b", "/", "x">>
    /\ LinkUrl(2) = <<"h", ":", "/", "/", "b", ":", "/", "/", "y">>
    /\ encoded_bitlinks_list = << <<"b", "/", "x">>, <<"b", "%", "3", "A", "/", "/", "y">> >>
    /\ RequestedBitlink(1) = <<"b", "/", "x">>
    /\ DOMAIN outcome.value = {encoded_bitlinks_list[1], encoded_bitlinks_list[2]}

\* C10 as stated: a listed link URL without "://" is rejected with an error:
\* no key is derived from it and no metrics request is issued.
C10_AsClaimed ==
    (LinksAccepted /\ \E i \in 1..Len(LinksOf(bitlinks_resp)) : ~HasDelim(LinkUrl(i))) =>
        /\ encoded_bitlinks_list = <<>>
        /\ RequestsTo("countries") = {}
        /\ Done => outcome.kind = "raise"

\* The entry of payload pl that a country map's value under name comes from:
\* the last one of that name
LastOfName(pl, name) ==
    CHOOSE j \in 1..Len(pl) :
        /\ pl[j].o["value"] = name
        /\ \A k \in (j + 1)..Len(pl) : pl[k].o["value"] # name

\* C11: every country value of the returned result is its entry's upstream
\* click count divided by 30 exactly, neither rounded nor truncated: the
\* value q satisfies q * 30 = clicks, so 90 clicks give 3 and 1 click gives
\* 1/30, not 0.
C11_ExactAverage ==
    (Returned /\ N = 1) =>
        LET m == outcome.value[encoded_bitlinks_list[1]]
            pl == PayloadOf(responses[1])
        IN \A name \in DOMAIN m :
              LET clicks == pl[LastOfName(pl, name)].o["clicks"]
              IN /\ clicks.t = "num"
                 /\ m[name].den > 0
                 /\ m[name].num * NUM_DAYS = clicks.n * m[name].den
                 /\ (clicks.n = 90 => m[name] = [num |-> 3, den |-> 1])
                 /\ (clicks.n = 1 => m[name] = [num |-> 1, den |-> 30])

\* A result holding the average of 90 clicks and the average of 1 click
C11_Witness ==
    /\ Returned /\ N = 1
    /\ country = NoneVal
    /\ PayloadOf(responses[1]) = <<Metric(US, Num(90)), Metric(FR, Num(1))>>
    /\ outcome.value[encoded_bitlinks_list[1]][US] = [num |-> 3, den |-> 1]
    /\ outcome.value[encoded_bitlinks_list[1]][FR] = [num |-> 1, den |-> 30]

\* The user-info response was received with a 2xx status and a JSON body
UserInfoReceived == user_resp # Pending /\ FetchOk(user_resp) /\ user_resp.body.text = "json"
UserInfo == user_resp.body.value.o

\* C12: a user-info response holding a string default_group_guid is accepted
\* and that string, unchanged, is the group id the bitlinks request is made
\* for; a response where the field is absent or not a string is rejected:
\* the call raises the data error (ValueError for absent, TypeError for a
\* non-string), no group id is kept, no bitlinks request is issued, and the
\* client is told BITLY_API_DATA_ERR.
C12_GroupValidation ==
    UserInfoReceived =>
        IF "default_group_guid" \in DOMAIN UserInfo /\ UserInfo["default_group_guid"].t = "str"
          THEN /\ pc = "bitlinks" /\ outcome = NoOutcome
               /\ group_guid = UserInfo["default_group_guid"]
               /\ requests[Len(requests)] =
                      Request(get_bitlinks_url(UserInfo["default_group_guid"].s), token, NoParams)
          ELSE /\ Done
               /\ outcome = Raise(IF "default_group_guid" \in DOMAIN UserInfo
                                    THEN "TypeError" ELSE "ValueError", 0)
               /\ group_guid = NoneVal
               /\ RequestsTo("bitlinks") = {}
               /\ Len(replies) = 1
               /\ replies[1].status = HTTP_INTERNAL_SERVER_ERROR
               /\ replies[1].body.errortype = BITLY_API_DATA_ERR

\* A string guid was accepted as it is
C12_Witness ==
    /\ user_resp = Http(201, JsonText(Obj([default_group_guid |-> Str(<<"g", "/">>)])))
    /\ group_guid = Str(<<"g", "/">>)
    /\ RequestsTo("bitlinks") # {}

\* The bitlinks response was received with a 2xx status and a JSON body
BitlinksReceived ==
    bitlinks_resp # Pending /\ FetchOk(bitlinks_resp) /\ bitlinks_resp.body.text = "json"
\* Its links field is an array whose every element has a string link
LinksWellFormed ==
    /\ LinksListed(bitlinks_resp)
    /\ \A n \in 1..Len(LinksOf(bitlinks_resp)) : ~MalformedRecord(LinksOf(bitlinks_resp)[n])
\* The bitlinks stage raised the data error: the call ended before any
\* metrics request
LinksRejected ==
    /\ Done /\ outcome.kind = "raise" /\ outcome.exc \in {"ValueError", "TypeError"}
    /\ RequestsTo("countries") = {}

\* C13 as stated: the bitlinks response is accepted exactly when links is an
\* array whose every element has a string link; any other response (no
\* links, links not an array, a malformed element) is rejected with the data
\* error.
C13_AsClaimed == BitlinksReceived => (LinksRejected <=> ~LinksWellFormed)

\* The one metrics fetch was answered 2xx and the call has ended
MetricsReceived == N = 1 /\ Done /\ FetchOk(responses[1])
MetricsBody == responses[1].body
\* The payload has a metrics array
HasMetricsArray ==
    /\ MetricsBody.text = "json"
    /\ "metrics" \in DOMAIN MetricsBody.value.o
    /\ MetricsBody.value.o["metrics"].t = "arr"
MetricsOf == MetricsBody.value.o["metrics"].a
\* An element the validator is to refuse: no value, no clicks, or clicks
\* that is not a number
BadMetric(rec) ==
    \/ "value" \notin DOMAIN rec.o
    \/ "clicks" \notin DOMAIN rec.o
    \/ rec.o["clicks"].t # "num"
\* An element it is to accept: a country name and numeric clicks
GoodMetric(rec) ==
    /\ {"value", "clicks"} \subseteq DOMAIN rec.o
    /\ rec.o["value"].t = "str"
    /\ rec.o["clicks"].t = "num"
MetricsRejected == outcome.kind = "raise" /\ outcome.exc \in {"ValueError", "TypeError"}

\* C14 as stated: a payload with no metrics array, or with an element that
\* lacks value, lacks clicks or has clicks that is not numeric, is rejected
\* with the data error; a payload whose metrics is an array of elements with
\* a country name and numeric clicks is accepted.
C14_AsClaimed ==
    MetricsReceived =>
        /\ (~HasMetricsArray \/ \E j \in 1..Len(MetricsOf) : BadMetric(MetricsOf[j]))
              => MetricsRejected
        /\ (HasMetricsArray /\ \A j \in 1..Len(MetricsOf) : GoodMetric(MetricsOf[j]))
              => Returned

\* The request was received with no access_token header or an empty one
TokenMissing == handler # "waiting" /\ (~access_token.present \/ access_token.value = "")

\* C15: a request whose access_token header is absent or empty is answered
\* with exactly one response, the 401 error envelope of type BAD_TOKEN_ERR,
\* and async_get_metrics is never called for it: no request to the upstream
\* API is issued.
C15_BadTokenUnauthorized ==
    TokenMissing =>
        /\ handler = "finished"
        /\ Len(replies) = 1
        /\ replies[1].status = HTTP_UNAUTHORIZED
        /\ replies[1].body.kind = "error"
        /\ replies[1].body.errortype = BAD_TOKEN_ERR
        /\ pc = "idle" /\ outcome = NoOutcome
        /\ requests = <<>>

\* A request with an empty access_token header was answered
C15_Witness ==
    /\ access_token = Header("")
    /\ handler = "finished"
    /\ replies = <<send_httperr(BAD_TOKEN_ERR,
                                [text |-> "Invalid access token provided", code |-> 0],
                                HTTP_UNAUTHORIZED)>>

\* The upstream answered with a status outside 2xx
Non2xx(resp) == resp.kind = "http" /\ resp.code \notin 200..299
\* A 2xx metrics answer whose payload violates the expected structure or types
MetricsViolation(resp) ==
    /\ FetchOk(resp)
    /\ ~(/\ PayloadValid(resp)
          /\ \A j \in 1..Len(PayloadOf(resp)) : GoodMetric(PayloadOf(resp)[j]))
\* A 2xx answer, at any of the three stages, whose payload violates the
\* expected structure or types
SomeViolation ==
    \/ user_resp # Pending /\ FetchOk(user_resp) /\ GroupFails(user_resp)
    \/ BitlinksReceived /\ ~LinksWellFormed
    \/ bitlinks_resp # Pending /\ FetchOk(bitlinks_resp) /\ bitlinks_resp.body.text # "json"
    \/ \E i \in 1..Len(responses) : responses[i] # Pending /\ MetricsViolation(responses[i])
\* The answers received at the three stages
Received ==
    {r \in {user_resp, bitlinks_resp} \cup {responses[i] : i \in 1..Len(responses)} : r # Pending}

\* C16 as stated: when the call has ended and some upstream payload violated
\* the expected structure or types (and every answer was 2xx), the client
\* got the BITLY_API_DATA_ERR envelope; when some upstream answer was a
\* non-2xx status (and the others were sound 2xx answers), the client got
\* the BITLY_API_HTTP_ERR envelope whose message carries that status code;
\* in neither case a success envelope.
C16_AsClaimed ==
    (Done /\ handler = "finished") =>
        /\ (SomeViolation /\ \A r \in Received : FetchOk(r)) =>
              /\ Len(replies) = 1
              /\ replies[1].body.kind = "error"
              /\ replies[1].body.errortype = BITLY_API_DATA_ERR
        /\ (~SomeViolation /\ (\E r \in Received : Non2xx(r))
                            /\ (\A r \in Received : FetchOk(r) \/ Non2xx(r))) =>
              /\ Len(replies) = 1
              /\ replies[1].body.kind = "error"
              /\ replies[1].body.errortype = BITLY_API_HTTP_ERR
              /\ \E r \in Received : Non2xx(r) /\ replies[1].body.errormessage.code = r.code

\* C18: within one call nothing is requested twice: the user endpoint is
\* requested at most once and the bitlinks endpoint at most once, the
\* metrics requests are one per entry of the link list in list order (all N
\* of them once the metrics stage is over), and a stage whose request failed
\* leaves the request log as it was: one request after a failed user fetch,
\* two after a failed bitlinks fetch, 2 + N after a failed metrics fetch.
C18_NoRetries ==
    /\ Cardinality(RequestsTo("user")) <= 1
    /\ Cardinality(RequestsTo("bitlinks")) <= 1
    /\ Cardinality(RequestsTo("countries")) = issued
    /\ issued <= N
    /\ \A i \in 1..issued :
          requests[2 + i] = Request(get_country_url(encoded_bitlinks_list[i]), token, MetricsParams)
    /\ (user_resp # Pending /\ ~FetchOk(user_resp)) => (Done /\ Len(requests) = 1)
    /\ (bitlinks_resp # Pending /\ ~FetchOk(bitlinks_resp)) => (Done /\ Len(requests) = 2)
    /\ (\E i \in 1..Len(responses) : responses[i] # Pending) => Len(requests) = 2 + N
    /\ (Done /\ bitlinks_resp # Pending /\ FetchOk(bitlinks_resp) /\ issued > 0) =>
          Len(requests) = 2 + N

\* The call ended after one of its two metrics fetches failed and the other
\* succeeded: four requests in all
C18_Witness ==
    /\ Done /\ N = 2
    /\ responses[1] = ConnFail /\ FetchOk(responses[2])
    /\ outcome.kind = "raise"
    /\ Len(requests) = 4

\* C20 as stated: a request whose call to async_get_metrics ended in an
\* exception of any kind is answered with one error envelope under a
\* non-success status, never with a success status or an empty body; a
\* success envelope is sent only when the call returned a result.
C20_AsClaimed ==
    (Done /\ handler = "finished") =>
        /\ Len(replies) = 1
        /\ outcome.kind = "raise" =>
              /\ replies[1].body.kind = "error"
              /\ replies[1].status \notin 200..299
        /\ replies[1].body.kind = "success" => outcome.kind = "return"

\* The distinct country names listed by a payload
NamesOf(pl) == {pl[j].o["value"] : j \in 1..Len(pl)}

\* C19 as stated, for the sequential revision: when the call returns for a
\* list of distinct bitlinks, every bitlink is a key of the result, also one
\* whose metrics list is empty, and its map holds one entry per distinct
\* country name of its payload, each the clicks of that name over 30.
C19_AsClaimed ==
    (Returned /\ Distinct(encoded_bitlinks_list)) =>
        \A i \in 1..N :
            /\ encoded_bitlinks_list[i] \in DOMAIN outcome.value
            /\ LET m == outcome.value[encoded_bitlinks_list[i]]
                   pl == PayloadOf(responses[i])
               IN /\ DOMAIN m = NamesOf(pl)
                  /\ \A name \in DOMAIN m :
                        m[name] = TrueDiv(pl[LastOfName(pl, name)].o["clicks"].n, num_days)

\* What async_get_metrics gives when it runs alone with country filter c
\* against the answers ur, br and rs: the three stages one after the other
RunAlone(c, ur, br, rs) ==
    LET g == async_get_group_guid(ur)
    IN IF Raised(g) THEN g
       ELSE LET l == async_get_bitlinks(br)
            IN IF Raised(l) THEN l
               ELSE country_counts_after_join(l.value, rs, c)

\* The request id, with locals st, has seen nothing of the other request
Isolated(st, id) ==
    /\ st.pc # "idle" =>
          /\ st.token = TwoArgs(id).token
          /\ st.country = TwoArgs(id).country
    /\ \A n \in 1..Len(st.requests) :
          /\ st.requests[n].token = TwoArgs(id).token
          /\ st.requests[n].url.endpoint = "countries" =>
                \E i \in 1..Len(st.encoded_bitlinks_list) :
                    st.requests[n].url.arg = st.encoded_bitlinks_list[i]
    /\ st.pc = "metrics" => st.encoded_bitlinks_list = async_get_bitlinks(st.bitlinks_resp).value
    /\ st.pc = "done" =>
          /\ st.outcome = RunAlone(TwoArgs(id).country, st.user_resp, st.bitlinks_resp,
                                    st.responses)
          /\ st.replies = <<handler_reply(st.outcome)>>

\* C17: with two requests in progress at once, under every interleaving of
\* their steps, each call's requests carry its own token and its own
\* bitlinks, and its result or error is what the call gives when run alone
\* with its own country filter against the answers it received.
C17_CallsIsolated == Isolated(call_state, current) /\ Isolated(peer, 3 - current)

\* Both calls returned a result for the same bitlink, each its own: the
\* unfiltered call all the countries, the filtered one only US
C17_Witness ==
    /\ pc = "done" /\ peer.pc = "done"
    /\ outcome.kind = "return" /\ peer.outcome.kind = "return"
    /\ <<"b", "/", "x">> \in DOMAIN outcome.value \cap DOMAIN peer.outcome.value
    /\ responses[1] = peer.responses[1]
    /\ outcome.value[<<"b", "/", "x">>] # peer.outcome.value[<<"b", "/", "x">>]

\* Two link records gave the same encoded identifier
HasDuplicate ==
    \E i, j \in 1..N : i # j /\ encoded_bitlinks_list[i] = encoded_bitlinks_list[j]
DistinctIds == {encoded_bitlinks_list[i] : i \in 1..N}
\* The last record, in list order, that gave identifier b
LastRecordOf(b) ==
    CHOOSE i \in 1..N :
        /\ encoded_bitlinks_list[i] = b
        /\ \A j \in (i + 1)..N : encoded_bitlinks_list[j] # b

\* C21: when several link records normalize to the same encoded identifier,
\* one metrics request is still issued per record, in list order; a returned
\* result has one key per distinct identifier, fewer than there are records,
\* and the country map under a key is computed from the response to the
\* last record of that identifier: the entries of that payload which pass
\* the filter, each with its clicks over 30.
C21_DuplicatesKeepLast ==
    (LinksAccepted /\ HasDuplicate) =>
        /\ N = Len(LinksOf(bitlinks_resp))
        /\ (\E i \in 1..N : responses[i] # Pending) =>
              /\ Cardinality(RequestsTo("countries")) = N
              /\ \A i \in 1..N : RequestedBitlink(i) = encoded_bitlinks_list[i]
        /\ Returned =>
              /\ DOMAIN outcome.value = DistinctIds
              /\ Cardinality(DOMAIN outcome.value) < N
              /\ \A b \in DistinctIds :
                    LET m == outcome.value[b]
                        pl == PayloadOf(responses[LastRecordOf(b)])
                    IN /\ FetchOk(responses[LastRecordOf(b)])
                       /\ PayloadValid(responses[LastRecordOf(b)])
                       /\ DOMAIN m = {pl[j].o["value"] :
                                         j \in {k \in 1..Len(pl) : PassesFilter(pl[k].o["value"])}}
                       /\ \A name \in DOMAIN m :
                             m[name] = TrueDiv(pl[LastOfName(pl, name)].o["clicks"].n, NUM_DAYS)

\* The http and the https form of one bitlink, answered differently: the
\* result has the one key, with the map of the second answer
C21_Witness ==
    /\ Returned /\ N = 2
    /\ LinkUrl(1) = <<"h", ":", "/", "/", "b", "/", "x">>
    /\ LinkUrl(2) = <<"s", ":", "/", "/", "b", "/", "x">>
    /\ country = NoneVal
    /\ responses[1] = Http(200, JsonText(Obj([metrics |-> Arr(<<Metric(FR, Num(30))>>)])))
    /\ responses[2] = Http(200, JsonText(Obj([metrics |->
                           Arr(<<Metric(US, Num(90)), Metric(FR, Num(60))>>)])))
    /\ DOMAIN outcome.value = {<<"b", "/", "x">>}
    /\ DOMAIN outcome.value[<<"b", "/", "x">>] = {US, FR}
    /\ outcome.value[<<"b", "/", "x">>][FR] = [num |-> 2, den |-> 1]

====
